---- MODULE Spec2Model ----
(***************************************************************************)
(* A model of the Presto HTTP statement protocol client:                   *)
(*   prestodb/client.py  PrestoRequest, PrestoQuery, PrestoResult          *)
(*   prestodb/dbapi.py   Cursor                                            *)
(* One cursor with its request object, the query objects it creates, the   *)
(* generators made from their results, and a coordinator that answers      *)
(* every HTTP exchange nondeterministically.                               *)
(***************************************************************************)
EXTENDS Integers, Sequences, FiniteSets, TLC

\* client.py:25
MAX_TRIES == 5

\* Bounds of the model.
MaxPasses == 1   \* loops over a result the caller starts
MaxPages == 2    \* pages the coordinator serves for one query
MaxRows == 2     \* rows in one page

\* Python's None, for a URI, a column list, a row.
None == <<>>

\* The continuation URI of page n of the coordinator's query s.
Uri(s, n) == <<s, n>>

\* Row i of page n of the coordinator's query s.
PageRows(s, n, k) == [i \in 1..k |-> <<s, n, i>>]

VARIABLES
    next_uri,            \* PrestoRequest._next_uri
    session_properties,  \* PrestoRequest._session_properties: a dict name -> value
    session_headers,     \* X-Presto-Session of PrestoRequest._session.headers
    cur_query,           \* Cursor._query: index into queries, 0 for None
    cur_iterator,        \* Cursor._iterator: index into gens, 0 for None
    queries,             \* the PrestoQuery objects (with their PrestoResult)
    gens,                \* the live generators made by PrestoResult.__iter__
    passes,              \* loops over a result the caller has started
    pc,                  \* the call a retry loop is in: idle, or which call
    tries,               \* attempts the retry loop has made in this call
    callq,               \* the query object of the call, 0 for a temporary one
    callgen,             \* the generator that called fetch
    pending,             \* the exception in flight while the finally block runs
    stmt,                \* statement_name of the running parameterized execute
    params,              \* the params argument of the running or last Cursor.execute
    ret,                 \* what the last finished caller operation returned or raised
    failsLeft,           \* coordinator: transient failures still to come in this call
    planned,             \* coordinator: transient failures planned for this call
    exchanges,           \* HTTP exchanges made in this call
    callRes,             \* record of the last finished retry loop
    track,               \* per query object: what has happened to it so far
    directive,           \* session directive of the last response on the request
    lastReq,             \* the last request sent on the request object
    sent,                \* requests issued by the running or last caller operation
    executed,            \* Cursor.execute was called: the cursor runs one statement
    cop,                 \* the fetchone / fetchmany / next() call that waits for a GET
    heap,                \* the dict objects given to connect() as session_properties
    conns,               \* the Connection objects
    requests,            \* the PrestoRequest objects the connections have made
    txns,                \* the Transaction objects
    cursors,             \* the Cursor objects made by Connection.cursor
    got,                 \* per connection: a response to it carried a session directive
    lastq,               \* the last query a cursor of a connection has sent
    cres,                \* what the last operation on a connection returned or raised
    served,              \* coordinator: pages it serves for one query
    text,                \* a str parameter of an EXECUTE statement: its characters
    literal              \* the SQL literal _format_prepared_param made of it

\* The state of the one cursor and its request.
cursorvars == <<next_uri, session_properties, session_headers, cur_query, cur_iterator,
                queries, gens, pc, tries, callq, callgen, pending, stmt, params, ret,
                failsLeft, planned, exchanges, callRes, track, passes,
                directive, lastReq, sent, executed, cop, served>>

\* The state of the connections and of what they made.
connvars == <<heap, conns, requests, txns, cursors, got, lastq, cres>>

\* The text parameter being formatted and its literal.
encvars == <<text, literal>>

vars == <<next_uri, session_properties, session_headers, cur_query, cur_iterator,
          queries, gens, pc, tries, callq, callgen, pending, stmt, params, ret,
          failsLeft, planned, exchanges, callRes, track, passes,
          directive, lastReq, sent, executed, cop,
          heap, conns, requests, txns, cursors, got, lastq, cres, text, literal,
          served>>

-----------------------------------------------------------------------------
(* HTTP responses.  code 0 stands for a connection failure: post()/get()   *)
(* raise requests.ConnectionError and there is no response.                *)

Resp(code) ==
    [code |-> code, error |-> "none", hdr |-> "none", id |-> 0,
     state |-> "None", nextUri |-> None, data |-> <<>>, columns |-> None]

\* A decodable success: page n of query s with k rows.
OkResponses(s, n) ==
    { [Resp(200) EXCEPT !.id = s,
                        !.state = IF nx THEN "RUNNING" ELSE "FINISHED",
                        !.nextUri = IF nx THEN Uri(s, n + 1) ELSE None,
                        !.data = PageRows(s, n, k),
                        !.columns = IF c THEN <<s, n>> ELSE None] :
        k \in 0..MaxRows,
        nx \in IF n < served THEN BOOLEAN ELSE {FALSE},
        c \in BOOLEAN }

\* A decodable success with an X-Presto-Set-Session or X-Presto-Clear-Session
\* header; process reads the headers before it looks at data and columns, so
\* one body for each continuation stands for all.
HeaderResponses(s, n) ==
    { [r EXCEPT !.hdr = h] :
        r \in { x \in OkResponses(s, n) : x.data = <<>> /\ x.columns = None },
        h \in {"set", "clear"} }

\* The session property a header names: p=b is set, p is cleared.
SetPair == <<"p", "b">>
ClearName == "p"

\* A 200 whose body holds an error envelope.
ErrorEnvelopes ==
    { [Resp(200) EXCEPT !.error = t] : t \in {"EXTERNAL", "USER_ERROR", "INTERNAL_ERROR"} }

TransientOutcomes == { Resp(0), Resp(503) }

FinalOutcomes(s, n) ==
    OkResponses(s, n) \cup HeaderResponses(s, n) \cup ErrorEnvelopes
        \cup { Resp(202), Resp(500) }

\* What the coordinator answers to the next exchange of the running call.
Outcomes(s, n) == IF failsLeft > 0 THEN TransientOutcomes ELSE FinalOutcomes(s, n)

-----------------------------------------------------------------------------
(* PrestoRequest *)

\* PrestoRequest.headers: the name=value pairs of the X-Presto-Session
\* header, none when the dict is empty.
headers(props) == { <<name, props[name]>> : name \in DOMAIN props }

\* PrestoRequest._process_error
_process_error(error) ==
    IF error = "EXTERNAL" THEN "PrestoExternalError"
    ELSE IF error = "USER_ERROR" THEN "PrestoUserError"
    ELSE "PrestoQueryError"

\* exceptions.py: the base class of an exception class.
Superclass(cls) ==
    IF cls = "Http503Error" THEN "HttpError"
    ELSE IF cls \in {"PrestoExternalError", "PrestoInternalError", "PrestoUserError"}
    THEN "PrestoQueryError"
    ELSE "Exception"

\* isinstance(exc, cls), what an except clause for cls tests.
IsInstance(exc, cls) ==
    exc = cls \/ Superclass(exc) = cls \/ (exc # "none" /\ cls = "Exception")

NoStatus == [id |-> 0, state |-> "None", next_uri |-> None, rows |-> <<>>, columns |-> None]

\* Fault injection for C27: process stores the response's nextUri before it
\* looks for the error envelope and the session headers.
PrestoRequest_process_early(r, nu, props) ==
    IF r.code # 200
    THEN [exc |-> IF r.code = 503 THEN "Http503Error" ELSE "HttpError",
          status |-> NoStatus, next_uri |-> nu, props |-> props]
    ELSE IF r.error # "none"
    THEN [exc |-> _process_error(r.error),
          status |-> NoStatus, next_uri |-> r.nextUri, props |-> props]
    ELSE IF r.hdr \in {"clear", "set"}
    THEN [exc |-> "AttributeError",
          status |-> NoStatus, next_uri |-> r.nextUri, props |-> props]
    ELSE [exc |-> "none",
          status |-> [id |-> r.id, state |-> r.state, next_uri |-> r.nextUri,
                      rows |-> r.data, columns |-> r.columns],
          next_uri |-> r.nextUri, props |-> props]

\* Fault injection for C20: both header branches read http_response.headers,
\* so that a directive changes the request's dict in place.
PrestoRequest_process_applies(r, nu, props) ==
    IF r.code # 200
    THEN [exc |-> IF r.code = 503 THEN "Http503Error" ELSE "HttpError",
          status |-> NoStatus, next_uri |-> nu, props |-> props]
    ELSE IF r.error # "none"
    THEN [exc |-> _process_error(r.error),
          status |-> NoStatus, next_uri |-> nu, props |-> props]
    ELSE [exc |-> "none",
          status |-> [id |-> r.id, state |-> r.state, next_uri |-> r.nextUri,
                      rows |-> r.data, columns |-> r.columns],
          next_uri |-> r.nextUri,
          props |-> IF r.hdr = "clear"
                    THEN [n \in DOMAIN props \ {ClearName} |-> props[n]]
                    ELSE IF r.hdr = "set"
                    THEN [n \in DOMAIN props \cup {SetPair[1]} |->
                             IF n = SetPair[1] THEN SetPair[2] ELSE props[n]]
                    ELSE props]

\* PrestoRequest.process on a request whose _next_uri is nu and whose
\* _session_properties dict holds props: the exception it raises ("none" for
\* a return), the PrestoStatus it returns and what it leaves in the request
\* and in the dict.  Both header branches read response.headers, response
\* being the decoded JSON dict.
PrestoRequest_process(r, nu, props) ==
    IF r.code # 200
    THEN [exc |-> IF r.code = 503 THEN "Http503Error" ELSE "HttpError",
          status |-> NoStatus, next_uri |-> nu, props |-> props]
    ELSE IF r.error # "none"
    THEN [exc |-> _process_error(r.error),
          status |-> NoStatus, next_uri |-> nu, props |-> props]
    ELSE IF r.hdr \in {"clear", "set"}
    THEN [exc |-> "AttributeError",
          status |-> NoStatus, next_uri |-> nu, props |-> props]
    ELSE [exc |-> "none",
          status |-> [id |-> r.id, state |-> r.state, next_uri |-> r.nextUri,
                      rows |-> r.data, columns |-> r.columns],
          next_uri |-> r.nextUri, props |-> props]

\* process on the request of the cursor.
process(r) == PrestoRequest_process(r, next_uri, session_properties)

\* One attempt: post()/get() then process(); a connection failure raises in
\* post()/get() and process() is not reached.
Attempt(r) ==
    IF r.code = 0
    THEN [exc |-> "ConnectionError", status |-> NoStatus,
          next_uri |-> next_uri, props |-> session_properties]
    ELSE process(r)

-----------------------------------------------------------------------------
(* The retry decorator of PrestoQuery.execute and PrestoQuery.fetch *)

\* Fault injection for C7: the decorator lists the base class HttpError, so
\* that every HTTP status failure is retried.
Retryable_HttpError(exc) == exc \in {"Http503Error", "ConnectionError", "HttpError"}

Retryable(exc) == exc \in {"Http503Error", "ConnectionError"}

\* Fault injection for C5: the retry loop gives up one attempt early.
GiveUp_early(exc, n) == ~Retryable(exc) \/ n >= MAX_TRIES - 1

\* Fault injection for C6: the retry loop makes one attempt too many.
GiveUp_late(exc, n) == ~Retryable(exc) \/ n > MAX_TRIES

\* backoff.on_exception gives up on an exception it does not list, and on a
\* listed one once max_tries attempts were made; n counts this attempt.
GiveUp(exc, n) == ~Retryable(exc) \/ n >= MAX_TRIES

-----------------------------------------------------------------------------
(* PrestoQuery and PrestoResult *)

\* PrestoQuery.__init__; the PrestoResult does not exist before execute returns.
NewQuery ==
    [query_id |-> 0, state |-> "None", columns |-> None, finished |-> FALSE,
     hasResult |-> FALSE, rows |-> <<>>, rownumber |-> 0]

\* Fault injection for C4: execute does not look at the continuation URI.
execute_ok_unfinished(q, status) ==
    [q EXCEPT !.query_id = status.id,
              !.state = status.state,
              !.hasResult = TRUE,
              !.rows = status.rows,
              !.rownumber = 0]

\* PrestoQuery.execute after process() returned status.
execute_ok(q, status) ==
    [q EXCEPT !.query_id = status.id,
              !.state = status.state,
              !.finished = IF status.next_uri = None THEN TRUE ELSE @,
              !.hasResult = TRUE,
              !.rows = status.rows,
              !.rownumber = 0]

\* Fault injection for C29: fetch assigns the columns of every page.
fetch_ok_always(q, status) ==
    [q EXCEPT !.columns = status.columns,
              !.state = status.state,
              !.finished = IF status.next_uri = None THEN TRUE ELSE @]

\* PrestoQuery.fetch after process() returned status.
fetch_ok(q, status) ==
    [q EXCEPT !.columns = IF status.columns # None THEN status.columns ELSE @,
              !.state = status.state,
              !.finished = IF status.next_uri = None THEN TRUE ELSE @]

\* PrestoResult.__iter__: a new generator over the result of query object o.
\* late, rn0: it was made after the query was terminal and an earlier
\* generator of the same result had run to its end; the counter at that time.
NewGen(o) ==
    [q |-> o, phase |-> "first", idx |-> 0, rows |-> <<>>, out |-> <<>>,
     late |-> queries[o].finished /\ track[o].exhausted,
     rn0 |-> queries[o].rownumber]

\* Fault injection for C1: the loop over a fetched page stops one row early.
GenResume_short(g, q) ==
    IF g.phase = "first" /\ g.idx < Len(q.rows)
    THEN [act |-> "yield", row |-> q.rows[g.idx + 1], gen |-> [g EXCEPT !.idx = @ + 1]]
    ELSE IF g.phase = "loop" /\ g.idx + 1 < Len(g.rows)
    THEN [act |-> "yield", row |-> g.rows[g.idx + 1], gen |-> [g EXCEPT !.idx = @ + 1]]
    ELSE IF g.phase \in {"done", "dead"}
    THEN [act |-> "stop", row |-> None, gen |-> g]
    ELSE IF q.finished
    THEN [act |-> "stop", row |-> None, gen |-> [g EXCEPT !.phase = "done"]]
    ELSE [act |-> "fetch", row |-> None,
          gen |-> [g EXCEPT !.phase = "loop", !.rows = <<>>, !.idx = 0]]

\* Fault injection for C28: the generator asks for the next page while a row
\* of the current page is still to be yielded.
GenResume_eager(g, q) ==
    IF g.phase = "first" /\ g.idx < Len(q.rows) /\ (q.finished \/ g.idx + 1 < Len(q.rows))
    THEN [act |-> "yield", row |-> q.rows[g.idx + 1], gen |-> [g EXCEPT !.idx = @ + 1]]
    ELSE IF g.phase = "loop" /\ g.idx < Len(g.rows) /\ (q.finished \/ g.idx + 1 < Len(g.rows))
    THEN [act |-> "yield", row |-> g.rows[g.idx + 1], gen |-> [g EXCEPT !.idx = @ + 1]]
    ELSE IF g.phase \in {"done", "dead"}
    THEN [act |-> "stop", row |-> None, gen |-> g]
    ELSE IF q.finished
    THEN [act |-> "stop", row |-> None, gen |-> [g EXCEPT !.phase = "done"]]
    ELSE [act |-> "fetch", row |-> None,
          gen |-> [g EXCEPT !.phase = "loop", !.rows = <<>>, !.idx = 0]]

\* The generator body from where it stands to its next yield, its return or
\* its next call of fetch.
GenResume(g, q) ==
    IF g.phase = "first" /\ g.idx < Len(q.rows)
    THEN [act |-> "yield", row |-> q.rows[g.idx + 1], gen |-> [g EXCEPT !.idx = @ + 1]]
    ELSE IF g.phase = "loop" /\ g.idx < Len(g.rows)
    THEN [act |-> "yield", row |-> g.rows[g.idx + 1], gen |-> [g EXCEPT !.idx = @ + 1]]
    ELSE IF g.phase \in {"done", "dead"}
    THEN [act |-> "stop", row |-> None, gen |-> g]
    ELSE IF q.finished
    THEN [act |-> "stop", row |-> None, gen |-> [g EXCEPT !.phase = "done"]]
    ELSE [act |-> "fetch", row |-> None,
          gen |-> [g EXCEPT !.phase = "loop", !.rows = <<>>, !.idx = 0]]

-----------------------------------------------------------------------------
\* What a caller operation raised ("none": it returned) and the value it
\* returned (None when it returns nothing the properties look at).
\* short: a fetchmany returned fewer rows than its size argument asked for.
Ret(op, exc) == [op |-> op, exc |-> exc, msg |-> "", val |-> None, short |-> FALSE]

RetVal(op, val) == [Ret(op, "none") EXCEPT !.val = val]

\* No call is waiting; a waiting call: its kind, the rows it still wants and
\* the rows it has so far.
NoOp == [kind |-> "none", left |-> 0, acc |-> <<>>]

\* What a response was: its status code (0: no response), the errorType of
\* its error envelope, its session header, its columns.
Class(r) == [code |-> r.code, error |-> r.error, hdr |-> r.hdr, columns |-> r.columns]

\* A finished retry loop: the call, the exception it raised, the exchanges it
\* made, the transient failures the coordinator had planned, its last response.
NoCall == [kind |-> "none", exc |-> "none", exchanges |-> 0, planned |-> 0, q |-> 0,
           last |-> Class(Resp(0))]

NoReq == [session |-> {}, after |-> "none"]

\* received: the rows of the pages the object's responses carried, in order;
\* firstUri: the nextUri of the response to its submission; fetched: its fetch
\* has sent a GET; exhausted: a generator of its result has returned.
NoTrack == [received |-> <<>>, firstUri |-> None, fetched |-> FALSE,
            exhausted |-> FALSE]

InitProps == { "p" :> "a" }

\* One cursor on its request, before its first operation.
CursorInitServed(n) ==
    /\ served = n
    /\ next_uri = None
    /\ session_properties \in InitProps
    /\ session_headers = headers(session_properties)
    /\ cur_query = 0
    /\ cur_iterator = 0
    /\ queries = <<>>
    /\ gens = <<>>
    /\ pc = "idle"
    /\ tries = 0
    /\ callq = 0
    /\ callgen = 0
    /\ pending = "none"
    /\ stmt = 0
    /\ params = [kind |-> "None", size |-> 0, enc |-> TRUE]
    /\ ret = Ret("none", "none")
    /\ failsLeft = 0
    /\ planned = 0
    /\ exchanges = 0
    /\ callRes = NoCall
    /\ track = <<>>
    /\ passes = 0
    /\ directive = "none"
    /\ lastReq = NoReq
    /\ sent = <<>>
    /\ executed = FALSE
    /\ cop = NoOp

CursorInit == CursorInitServed(MaxPages)

\* The transaction id of a request outside a transaction.
NO_TRANSACTION == "NONE"

\* IsolationLevel: cursor() of a connection of any level but AUTOCOMMIT works
\* in a transaction.
AUTOCOMMIT == "AUTOCOMMIT"
IsolationLevel == {AUTOCOMMIT, "READ_COMMITTED"}

\* The two connections of the process.
Conns == {1, 2}
Other(c) == 3 - c

NoQuery == [connection |-> 0, cursor |-> 0, request |-> 0,
            transaction_id |-> NO_TRANSACTION, session |-> {},
            active |-> 0, own |-> FALSE, after |-> FALSE]

\* What an operation on a connection returned (exc "none") or raised.
ConnRet(op, c, exc) == [op |-> op, connection |-> c, exc |-> exc]

\* The default of the max_attempts argument of Connection.__init__.
DEFAULT_MAX_ATTEMPTS == 5

\* Connection.__init__ twice: connect(..., session_properties=d1,
\* isolation_level=l1, max_attempts=m) and connect(..., session_properties=d2,
\* isolation_level=l2), d2 being the dict object d1 itself (shared) or an equal
\* dict; a connection keeps the dict it was given.
ConnectWith(l1, l2, shared, d, m) ==
    /\ heap = IF shared THEN <<d>> ELSE <<d, d>>
    /\ conns = <<[isolation_level |-> l1, session_properties |-> 1, transaction |-> 0,
                  max_attempts |-> m],
                 [isolation_level |-> l2,
                  session_properties |-> IF shared THEN 1 ELSE 2,
                  transaction |-> 0, max_attempts |-> DEFAULT_MAX_ATTEMPTS]>>
    /\ requests = <<>>
    /\ txns = <<>>
    /\ cursors = <<>>
    /\ got = [c \in Conns |-> FALSE]
    /\ lastq = NoQuery
    /\ cres = ConnRet("none", 0, "none")

\* The same with max_attempts left at its default.
Connect(l1, l2, shared, d) == ConnectWith(l1, l2, shared, d, DEFAULT_MAX_ATTEMPTS)

\* No parameter is being formatted.
NoText ==
    /\ text = <<>>
    /\ literal = <<>>

Init ==
    /\ CursorInit
    /\ NoText
    /\ \E d \in InitProps : Connect(AUTOCOMMIT, AUTOCOMMIT, FALSE, d)

-----------------------------------------------------------------------------
(* Cursor._format_prepared_param on a str parameter *)

MaxLen == 4      \* characters in a text parameter

QUOTE == "'"

\* The characters of a text: the single quote, a letter, the backslash.
Chars == {QUOTE, "a", "\\"}

Texts == UNION { [1..n -> Chars] : n \in 0..MaxLen }

\* str.replace("'", "''")
RECURSIVE replace(_)
replace(s) ==
    IF s = <<>> THEN <<>>
    ELSE (IF Head(s) = QUOTE THEN <<QUOTE, QUOTE>> ELSE <<Head(s)>>) \o replace(Tail(s))

\* Fault injection for C23: the text is wrapped in quotes as it is.
_format_prepared_param_raw(param) == <<QUOTE>> \o param \o <<QUOTE>>

\* _format_prepared_param(param) for isinstance(param, str).
_format_prepared_param(param) == <<QUOTE>> \o replace(param) \o <<QUOTE>>

InitEncode ==
    /\ CursorInit
    /\ \E d \in InitProps : Connect(AUTOCOMMIT, AUTOCOMMIT, FALSE, d)
    /\ text \in Texts
    /\ literal = <<>>

\* The str parameter is formatted.
FormatParam ==
    /\ literal = <<>>
    /\ literal' = _format_prepared_param(text)
    /\ UNCHANGED <<cursorvars, connvars, text>>

NextEncode == FormatParam

SpecEncode == InitEncode /\ [][NextEncode]_vars

-----------------------------------------------------------------------------
(* The caller's arguments *)

MaxParams == 1   \* elements in a params value

\* A params value: its Python type, its length (for int: its value) and, for a
\* sequence with elements, whether _format_prepared_param encodes them all.
Params ==
    { [kind |-> "None", size |-> 0, enc |-> TRUE],
      [kind |-> "object", size |-> 0, enc |-> TRUE] }
        \cup { [kind |-> k, size |-> n, enc |-> TRUE] :
                 k \in {"list", "tuple", "dict", "set", "str", "int"}, n \in 0..MaxParams }
        \cup { [kind |-> k, size |-> n, enc |-> FALSE] :
                 k \in {"list", "tuple"}, n \in 1..MaxParams }

NoParams == [kind |-> "None", size |-> 0, enc |-> TRUE]

\* bool(params), the test of "if params:".
Truthy(p) == p.kind = "object" \/ (p.kind # "None" /\ p.size > 0)

\* isinstance(params, (list, tuple))
IsSequence(p) == p.kind \in {"list", "tuple"}

-----------------------------------------------------------------------------
(* Entering and leaving a retry loop *)

\* The transient failures the coordinator plans for one call before it
\* answers: none, one, the most that the retries absorb, the fewest that they
\* do not.
Planned == {0, 1, MAX_TRIES - 1, MAX_TRIES}

StartCall(kind, o, g) ==
    /\ pc' = kind
    /\ tries' = 0
    /\ callq' = o
    /\ callgen' = g
    /\ exchanges' = 0
    /\ \E k \in Planned : failsLeft' = k /\ planned' = k

EndCall ==
    /\ pc' = "idle"
    /\ tries' = 0
    /\ callq' = 0
    /\ callgen' = 0
    /\ exchanges' = 0
    /\ failsLeft' = 0
    /\ planned' = 0

Retry ==
    /\ pc' = pc
    /\ tries' = tries + 1
    /\ callq' = callq
    /\ callgen' = callgen
    /\ exchanges' = exchanges + 1
    /\ failsLeft' = IF failsLeft > 0 THEN failsLeft - 1 ELSE 0
    /\ planned' = planned

\* How one attempt ends: it returns, it is retried, or its exception is raised.
AttemptEnd(exc, n) ==
    IF exc = "none" THEN "ok" ELSE IF GiveUp(exc, n) THEN "raise" ELSE "retry"

\* The id the coordinator gives the query that a POST of the running
\* Cursor.execute creates: one per statement.
SrvId(stage) ==
    IF stage = "prepare" THEN 1 ELSE IF stage = "dealloc" THEN 3 ELSE 2

\* The statement a stage of Cursor.execute POSTs.
Statement(stage) ==
    IF stage = "prepare" THEN <<"PREPARE", <<stmt>>>>
    ELSE IF stage = "pexecute" THEN <<"EXECUTE", <<stmt>>>>
    ELSE IF stage = "dealloc" THEN <<"DEALLOCATE", <<stmt>>>>
    ELSE <<"RAW", <<>>>>

-----------------------------------------------------------------------------
(* Cursor.execute *)

\* Fault injection for C10: the assertion also accepts a mapping.
params_check_mapping(p) ==
    IF Truthy(p) /\ p.kind \notin {"list", "tuple", "dict"} THEN "AssertionError"
    ELSE "none"

\* The params check of Cursor.execute: the exception its assertion raises.
params_check(p) ==
    IF Truthy(p) /\ ~IsSequence(p) THEN "AssertionError" ELSE "none"

\* Cursor.execute up to its first POST.
CursorExecute ==
    /\ UNCHANGED <<connvars, encvars, served>>
    /\ pc = "idle"
    /\ ~executed
    /\ \E p \in Params :
        /\ params' = p
        /\ executed' = TRUE
        /\ callRes' = NoCall
        /\ sent' = <<>>
        /\ IF params_check(p) # "none"
           THEN /\ ret' = Ret("execute", params_check(p))
                /\ UNCHANGED <<cur_query, queries, track, stmt, pc, tries,
                               callq, callgen, exchanges, failsLeft, planned>>
           ELSE IF Truthy(p)
           THEN \* _generate_unique_statement_name, _prepare_statement
                /\ ret' = Ret("none", "none")
                /\ stmt' = 1
                /\ StartCall("prepare", 0, 0)
                /\ UNCHANGED <<cur_query, queries, track>>
           ELSE \* self._query = PrestoQuery(self._request, sql=operation)
                /\ ret' = Ret("none", "none")
                /\ cur_query' = Len(queries) + 1
                /\ queries' = Append(queries, NewQuery)
                /\ track' = Append(track, NoTrack)
                /\ StartCall("execute", Len(queries) + 1, 0)
                /\ UNCHANGED stmt
    /\ UNCHANGED <<next_uri, session_properties, session_headers, cur_iterator, gens,
                   passes, pending, directive, lastReq, cop>>

\* _execute_prepared_statement: the exception formatting the parameters raises.
format_params(p) == IF p.enc THEN "none" ELSE "NotSupportedError"

\* Fault injection for C11: DEALLOCATE is not in a finally block and is
\* skipped when EXECUTE raises.
NextStage_nofinally(s, e) ==
    IF e = "retry" THEN s
    ELSE IF s = "prepare" /\ e = "ok"
    THEN (IF format_params(params) = "none" THEN "pexecute" ELSE "idle")
    ELSE IF s = "pexecute" /\ e = "ok" THEN "dealloc"
    ELSE "idle"

\* The stage Cursor.execute goes to when the call of stage s ends with e: after
\* PREPARE the try block, whose finally sends DEALLOCATE whether the EXECUTE
\* statement could be built and executed or not.
NextStage(s, e) ==
    IF e = "retry" THEN s
    ELSE IF s = "prepare" /\ e = "ok"
    THEN (IF format_params(params) = "none" THEN "pexecute" ELSE "dealloc")
    ELSE IF s = "pexecute" THEN "dealloc"
    ELSE "idle"

\* What Cursor.execute raises when its last call ended with exception exc
\* ("none" for a return) while inflight was propagating through the finally.
execute_raises(exc, inflight) == IF exc # "none" THEN exc ELSE inflight

\* One attempt of PrestoQuery.execute (POST, then process) within
\* Cursor.execute, and what Cursor.execute does when the call ends.
Post ==
    /\ UNCHANGED <<connvars, encvars, served>>
    /\ pc \in {"execute", "prepare", "pexecute", "dealloc"}
    /\ \E r \in Outcomes(SrvId(pc), 1) :
        LET a == Attempt(r)
            e == AttemptEnd(a.exc, tries + 1)
            stage == NextStage(pc, e)
            own == pc \in {"execute", "pexecute"} /\ e = "ok"
            made == pc = "prepare" /\ e = "ok" /\ stage = "pexecute"
        IN  /\ lastReq' = [session |-> session_headers, after |-> directive]
            /\ sent' = IF tries = 0 THEN Append(sent, Statement(pc)) ELSE sent
            /\ directive' = r.hdr
            /\ next_uri' = a.next_uri
            /\ session_properties' = a.props
            /\ callRes' = IF e = "retry" THEN callRes
                          ELSE [kind |-> pc, exc |-> a.exc, exchanges |-> exchanges + 1,
                                planned |-> planned, q |-> callq, last |-> Class(r)]
            /\ queries' = IF own THEN [queries EXCEPT ![callq] = execute_ok(@, a.status)]
                          ELSE IF made THEN Append(queries, NewQuery)
                          ELSE queries
            /\ track' = IF own THEN [track EXCEPT ![callq].received = r.data,
                                                  ![callq].firstUri = r.nextUri]
                        ELSE IF made THEN Append(track, NoTrack)
                        ELSE track
            /\ cur_query' = IF made THEN Len(queries) + 1 ELSE cur_query
            /\ gens' = IF own THEN Append(gens, NewGen(callq)) ELSE gens
            /\ cur_iterator' = IF own THEN Len(gens) + 1 ELSE cur_iterator
            /\ pending' = IF pc = "pexecute" /\ e = "raise" THEN a.exc
                          ELSE IF pc = "prepare" /\ stage = "dealloc"
                          THEN format_params(params)
                          ELSE IF stage = "idle" THEN "none"
                          ELSE pending
            /\ ret' = IF stage = "idle" THEN Ret("execute", execute_raises(a.exc, pending))
                      ELSE ret
            /\ IF e = "retry" THEN Retry
               ELSE IF stage = "idle" THEN EndCall
               ELSE StartCall(stage, IF stage = "pexecute" THEN Len(queries) + 1 ELSE 0, 0)
    /\ UNCHANGED <<session_headers, stmt, params, executed, passes, cop>>

-----------------------------------------------------------------------------
(* Iterating a result *)

\* iter(result) by the caller, on any result it holds (Cursor.genall returns it).
\* The caller runs such a loop (a for statement, list(), Cursor.fetchall) to
\* its end before it uses the cursor again, and drops the loop's generator
\* when it starts the next loop.
LoopRunning ==
    \E h \in 1..Len(gens) : h # cur_iterator /\ gens[h].phase \in {"first", "loop"}

IterStart ==
    /\ UNCHANGED <<connvars, encvars, served>>
    /\ pc = "idle"
    /\ passes < MaxPasses
    /\ ~LoopRunning
    /\ \E o \in 1..Len(queries) :
        /\ queries[o].hasResult
        /\ gens' = <<gens[cur_iterator], NewGen(o)>>
    /\ passes' = passes + 1
    /\ ret' = Ret("iter", "none")
    /\ callRes' = NoCall
    /\ sent' = <<>>
    /\ params' = NoParams
    /\ UNCHANGED <<next_uri, session_properties, session_headers, cur_query,
                   cur_iterator, queries, pc, tries, callq, callgen, pending, stmt,
                   failsLeft, planned, exchanges, track,
                   directive, lastReq, executed, cop>>

\* A generator that has yielded row.
Yielded(g, row) == [g EXCEPT !.out = Append(@, row)]

\* The caller's loop over generator g of result q, wanting left more rows
\* after the rows acc: next() and fetchone want one, fetchmany(size) calls
\* fetchone up to size times and stops at the first None.  It runs to its
\* return or to the next GET the generator needs.
RECURSIVE Drain(_, _, _, _)
Drain(g, q, left, acc) ==
    IF left = 0
    THEN [act |-> "return", stopped |-> FALSE, gen |-> g, q |-> q,
          left |-> 0, acc |-> acc]
    ELSE LET r == GenResume(g, q)
         IN  IF r.act = "yield"
             THEN Drain(Yielded(r.gen, r.row), [q EXCEPT !.rownumber = @ + 1],
                        left - 1, Append(acc, r.row))
             ELSE IF r.act = "stop"
             THEN [act |-> "return", stopped |-> TRUE, gen |-> r.gen, q |-> q,
                   left |-> left, acc |-> acc]
             ELSE [act |-> "fetch", stopped |-> FALSE, gen |-> r.gen, q |-> q,
                   left |-> left, acc |-> acc]

\* Fault injection for C16: fetchone has no except clause for StopIteration.
fetchone_returns_unguarded(stopped, acc) ==
    IF stopped THEN Ret("fetchone", "StopIteration")
    ELSE RetVal("fetchone", acc[1])

\* Cursor.fetchone when next(self._iterator) has raised StopIteration
\* (stopped) or returned the row acc[1].
fetchone_returns(stopped, acc) ==
    IF stopped THEN RetVal("fetchone", None)
    ELSE RetVal("fetchone", acc[1])

\* What the call of the given kind returns when its loop has ended: fetchmany
\* ends at the fetchone that returned None (or raised) or after size rows.
Returned(kind, stopped, acc) ==
    IF kind = "fetchmany"
    THEN (IF stopped /\ fetchone_returns(stopped, acc).exc # "none"
          THEN Ret("fetchmany", fetchone_returns(stopped, acc).exc)
          ELSE [RetVal("fetchmany", acc) EXCEPT !.short = stopped])
    ELSE IF kind = "fetchone" THEN fetchone_returns(stopped, acc)
    ELSE IF stopped THEN Ret("next", "StopIteration")
    ELSE RetVal("next", acc[1])

\* What it raises when the generator raised exc: fetchone (and fetchmany
\* through it) turns an HttpError into an OperationalError.
Raised(kind, exc) ==
    IF kind = "next" THEN Ret("next", exc)
    ELSE IF IsInstance(exc, "HttpError") THEN Ret(kind, "OperationalError")
    ELSE Ret(kind, exc)

\* A call of the given kind on generator g, up to its return or its first GET.
Pull(kind, g, size) ==
    LET o == gens[g].q
        d == Drain(gens[g], queries[o], size, <<>>)
    IN  /\ gens' = [gens EXCEPT ![g] = d.gen]
        /\ queries' = [queries EXCEPT ![o] = d.q]
        /\ IF d.act = "return"
           THEN /\ ret' = Returned(kind, d.stopped, d.acc)
                /\ track' = [track EXCEPT ![o].exhausted = @ \/ d.gen.phase = "done"]
                /\ cop' = NoOp
                /\ UNCHANGED <<pc, tries, callq, callgen, exchanges, failsLeft, planned>>
           ELSE /\ ret' = Ret("none", "none")
                /\ cop' = [kind |-> kind, left |-> d.left, acc |-> d.acc]
                /\ StartCall("fetch", o, g)
                /\ UNCHANGED track

\* next(generator), by the caller's loop over a result, up to its yield, its
\* return or its first GET; the cursor's own iterator is driven by
\* CursorFetch.
GenNext ==
    /\ UNCHANGED <<connvars, encvars, served>>
    /\ pc = "idle"
    /\ \E g \in 1..Len(gens) :
        /\ g # cur_iterator
        /\ Pull("next", g, 1)
    /\ callRes' = NoCall
    /\ sent' = <<>>
    /\ params' = NoParams
    /\ UNCHANGED <<next_uri, session_properties, session_headers, cur_query,
                   cur_iterator, pending, stmt, passes,
                   directive, lastReq, executed>>

MaxFetch == 2    \* the size argument of fetchmany

\* Cursor.fetchone and Cursor.fetchmany(size) up to their return or their
\* first GET; next(None) raises TypeError on a cursor without an iterator.
CursorFetch ==
    /\ UNCHANGED <<connvars, encvars, served>>
    /\ pc = "idle"
    /\ ~LoopRunning
    /\ \E kind \in {"fetchone", "fetchmany"} :
       \E size \in IF kind = "fetchone" THEN {1} ELSE 0..MaxFetch :
          IF cur_iterator = 0 /\ size > 0
          THEN /\ ret' = Ret(kind, "TypeError")
               /\ UNCHANGED <<gens, queries, track, cop, pc, tries, callq, callgen,
                              exchanges, failsLeft, planned>>
          ELSE IF cur_iterator = 0
          THEN /\ ret' = RetVal(kind, <<>>)
               /\ UNCHANGED <<gens, queries, track, cop, pc, tries, callq, callgen,
                              exchanges, failsLeft, planned>>
          ELSE Pull(kind, cur_iterator, size)
    /\ callRes' = NoCall
    /\ sent' = <<>>
    /\ params' = NoParams
    /\ UNCHANGED <<next_uri, session_properties, session_headers, cur_query,
                   cur_iterator, pending, stmt, passes,
                   directive, lastReq, executed>>

\* One attempt of PrestoQuery.fetch (GET of the request's next_uri, then
\* process) for the generator that called it, and the waiting call up to its
\* return or the next GET.
Get ==
    /\ UNCHANGED <<connvars, encvars, served>>
    /\ pc = "fetch"
    /\ IF next_uri = None
       THEN \* requests rejects the URL None before anything is sent
            /\ gens' = [gens EXCEPT ![callgen].phase = "dead"]
            /\ ret' = Raised(cop.kind, "MissingSchema")
            /\ cop' = NoOp
            /\ callRes' = [kind |-> "fetch", exc |-> "MissingSchema",
                           exchanges |-> exchanges, planned |-> planned, q |-> callq,
                           last |-> Class(Resp(0))]
            /\ EndCall
            /\ UNCHANGED <<next_uri, session_properties, queries, track,
                           directive, lastReq, sent>>
       ELSE \E r \in Outcomes(next_uri[1], next_uri[2]) :
            LET a == Attempt(r)
                e == AttemptEnd(a.exc, tries + 1)
                q2 == fetch_ok(queries[callq], a.status)
                g2 == [gens[callgen] EXCEPT !.rows = a.status.rows, !.idx = 0]
                d == Drain(g2, q2, cop.left, cop.acc)
            IN  /\ lastReq' = [session |-> session_headers, after |-> directive]
                /\ sent' = IF tries = 0 THEN Append(sent, <<"GET", next_uri>>) ELSE sent
                /\ directive' = r.hdr
                /\ next_uri' = a.next_uri
                /\ session_properties' = a.props
                /\ callRes' = IF e = "retry" THEN callRes
                              ELSE [kind |-> "fetch", exc |-> a.exc,
                                    exchanges |-> exchanges + 1, planned |-> planned,
                                    q |-> callq, last |-> Class(r)]
                /\ track' = [track EXCEPT
                       ![callq].fetched = TRUE,
                       ![callq].received = IF e = "ok" THEN @ \o r.data ELSE @,
                       ![callq].exhausted = @ \/ (e = "ok" /\ d.act = "return"
                                                    /\ d.gen.phase = "done")]
                /\ queries' = IF e = "ok" THEN [queries EXCEPT ![callq] = d.q]
                              ELSE queries
                /\ gens' = IF e = "retry" THEN gens
                           ELSE IF e = "raise"
                           THEN [gens EXCEPT ![callgen].phase = "dead"]
                           ELSE [gens EXCEPT ![callgen] = d.gen]
                /\ ret' = IF e = "retry" THEN ret
                          ELSE IF e = "raise" THEN Raised(cop.kind, a.exc)
                          ELSE IF d.act = "return"
                          THEN Returned(cop.kind, d.stopped, d.acc)
                          ELSE ret
                /\ cop' = IF e = "retry" THEN cop
                          ELSE IF e = "ok" /\ d.act = "fetch"
                          THEN [cop EXCEPT !.left = d.left, !.acc = d.acc]
                          ELSE NoOp
                /\ IF e = "retry" THEN Retry
                   ELSE IF e = "ok" /\ d.act = "fetch" THEN StartCall("fetch", callq, callgen)
                   ELSE EndCall
    /\ UNCHANGED <<session_headers, cur_query, cur_iterator, pending, stmt, params,
                   executed, passes>>

-----------------------------------------------------------------------------
(* Cursor.cancel *)

\* PrestoQuery.cancel: one out-of-band request to the query's info URI; a query
\* that never got an id or that is finished has nothing to cancel and fails.
query_cancel(q) ==
    IF q.query_id = 0 \/ q.finished
    THEN [exc |-> "OperationalError", msg |-> "query is not running",
          sent |-> <<>>]
    ELSE [exc |-> "none", msg |-> "", sent |-> << <<"CANCEL", <<q.query_id>>>> >>]

\* Fault injection for C9: Cursor.cancel does not test for a missing query and
\* calls cancel on None.
cursor_cancel_unchecked(o) ==
    IF o = 0
    THEN [exc |-> "AttributeError", msg |-> "", sent |-> <<>>]
    ELSE query_cancel(queries[o])

\* Cursor.cancel on a cursor whose _query is the object o (0 for None).
cursor_cancel(o) ==
    IF o = 0
    THEN [exc |-> "OperationalError", msg |-> "Cancel query failed; no running query",
          sent |-> <<>>]
    ELSE query_cancel(queries[o])

CursorCancel ==
    /\ UNCHANGED <<connvars, encvars, served>>
    /\ pc = "idle"
    /\ LET c == cursor_cancel(cur_query)
       IN  /\ ret' = [Ret("cancel", c.exc) EXCEPT !.msg = c.msg]
           /\ sent' = c.sent
           /\ lastReq' = IF c.sent # <<>>
                         THEN [session |-> session_headers, after |-> directive]
                         ELSE lastReq
    /\ callRes' = NoCall
    /\ params' = NoParams
    /\ UNCHANGED <<next_uri, session_properties, session_headers, cur_query,
                   cur_iterator, queries, gens, pc, tries, callq, callgen, pending,
                   stmt, failsLeft, planned, exchanges, track, passes,
                   directive, executed, cop>>

-----------------------------------------------------------------------------
Next ==
    \/ CursorExecute
    \/ Post
    \/ IterStart
    \/ GenNext
    \/ CursorFetch
    \/ Get
    \/ CursorCancel

Spec == Init /\ [][Next]_vars

\* Cursor.description for the query object q: None while the query has no
\* columns, else one entry (name, type and five None) for each of them.
description(q) == IF q.columns = None THEN None ELSE <<"name, type of", q.columns>>

-----------------------------------------------------------------------------
(* PrestoQuery.fetch called by the caller on the cursor's query *)

\* The caller calls fetch() on the query of the cursor, once it was executed.
QueryFetch ==
    /\ UNCHANGED <<connvars, encvars, served>>
    /\ pc = "idle"
    /\ ~LoopRunning
    /\ cur_query # 0
    /\ queries[cur_query].hasResult
    /\ StartCall("qfetch", cur_query, 0)
    /\ ret' = Ret("none", "none")
    /\ callRes' = NoCall
    /\ sent' = <<>>
    /\ params' = NoParams
    /\ UNCHANGED <<next_uri, session_properties, session_headers, cur_query,
                   cur_iterator, queries, gens, track, pending, stmt, passes,
                   directive, lastReq, executed, cop>>

\* One attempt of that PrestoQuery.fetch: GET of the request's next_uri, then
\* process; the rows of the page are returned to the caller.
QueryGet ==
    /\ UNCHANGED <<connvars, encvars, served>>
    /\ pc = "qfetch"
    /\ IF next_uri = None
       THEN \* requests rejects the URL None before anything is sent
            /\ ret' = Ret("fetch", "MissingSchema")
            /\ callRes' = [kind |-> "fetch", exc |-> "MissingSchema",
                           exchanges |-> exchanges, planned |-> planned, q |-> callq,
                           last |-> Class(Resp(0))]
            /\ EndCall
            /\ UNCHANGED <<next_uri, session_properties, queries, track,
                           directive, lastReq, sent>>
       ELSE \E r \in Outcomes(next_uri[1], next_uri[2]) :
            LET a == Attempt(r)
                e == AttemptEnd(a.exc, tries + 1)
            IN  /\ lastReq' = [session |-> session_headers, after |-> directive]
                /\ sent' = IF tries = 0 THEN Append(sent, <<"GET", next_uri>>) ELSE sent
                /\ directive' = r.hdr
                /\ next_uri' = a.next_uri
                /\ session_properties' = a.props
                /\ callRes' = IF e = "retry" THEN callRes
                              ELSE [kind |-> "fetch", exc |-> a.exc,
                                    exchanges |-> exchanges + 1, planned |-> planned,
                                    q |-> callq, last |-> Class(r)]
                /\ track' = [track EXCEPT
                       ![callq].fetched = TRUE,
                       ![callq].received = IF e = "ok" THEN @ \o r.data ELSE @]
                /\ queries' = IF e = "ok"
                              THEN [queries EXCEPT ![callq] = fetch_ok(@, a.status)]
                              ELSE queries
                /\ ret' = IF e = "retry" THEN ret
                          ELSE IF e = "raise" THEN Ret("fetch", a.exc)
                          ELSE RetVal("fetch", a.status.rows)
                /\ IF e = "retry" THEN Retry ELSE EndCall
    /\ UNCHANGED <<session_headers, cur_query, cur_iterator, gens, pending, stmt,
                   params, executed, passes, cop>>

\* A cursor that runs one statement and fetches its rows, the coordinator
\* serving one page more.
InitFetch ==
    /\ CursorInitServed(MaxPages + 1)
    /\ NoText
    /\ \E d \in InitProps : Connect(AUTOCOMMIT, AUTOCOMMIT, FALSE, d)

NextFetch ==
    \/ CursorExecute
    \/ Post
    \/ CursorFetch
    \/ Get

SpecFetch == InitFetch /\ [][NextFetch]_vars

\* The same cursor when every HTTP exchange comes to its end (post() and get()
\* return or raise, the retry decorator sleeps and tries again) and the caller
\* goes on fetching.  The coordinator serves a last page after at most
\* MaxPages + 1 pages and plans at most MAX_TRIES transient failures for a
\* call.
SpecLive ==
    /\ InitFetch
    /\ [][NextFetch]_vars
    /\ WF_vars(Post)
    /\ WF_vars(Get)
    /\ WF_vars(CursorFetch)

\* A cursor whose caller also calls fetch() on its query.
NextDirect ==
    \/ CursorExecute
    \/ Post
    \/ CursorFetch
    \/ Get
    \/ QueryFetch
    \/ QueryGet

SpecDirect == Init /\ [][NextDirect]_vars

-----------------------------------------------------------------------------
(* Connections: cursor(), start_transaction(), commit(), rollback(), and  *)
(* the queries of the cursors they made                                    *)

MaxCursors == 2   \* Cursor objects the connections make
MaxTxns == 2      \* Transaction objects the connections make

\* Connection._create_request: a new PrestoRequest on the connection's
\* session-properties dict; PrestoRequest.__init__ copies self.headers into
\* its requests session once.
_create_request(c) ==
    [connection |-> c,
     session_properties |-> conns[c].session_properties,
     session |-> headers(heap[conns[c].session_properties]),
     transaction_id |-> NO_TRANSACTION,
     next_uri |-> None]

\* Transaction(request)
Transaction(q) == [request |-> q, id |-> NO_TRANSACTION, state |-> "NOT_STARTED"]

\* The id the coordinator gives the next transaction it starts.
TransactionIds == <<"t1", "t2", "t3", "t4">>
NewTransactionId == TransactionIds[Len(txns) + 1]

\* Transaction.begin when START TRANSACTION was answered with the id tid.
Transaction_begin(t, tid) == [t EXCEPT !.id = tid, !.state = "ACTIVE"]

\* Transaction.commit and Transaction.rollback when COMMIT and ROLLBACK were
\* answered without an error.
Transaction_commit(t) == [t EXCEPT !.state = "COMMITTED"]
Transaction_rollback(t) == [t EXCEPT !.state = "ROLLED_BACK"]

\* Connection.start_transaction: the Transaction is assigned to _transaction
\* before begin() runs, so it stays there when begin() raises.
start_transaction(c, ok) ==
    LET q == Len(requests) + 1
        t == Len(txns) + 1
    IN  /\ requests' = Append(requests,
                          IF ok THEN [_create_request(c) EXCEPT
                                         !.transaction_id = NewTransactionId]
                          ELSE _create_request(c))
        /\ txns' = Append(txns, IF ok THEN Transaction_begin(Transaction(q), NewTransactionId)
                                ELSE Transaction(q))
        /\ conns' = [conns EXCEPT ![c].transaction = t]

\* Fault injection for C13: commit and rollback do not reset _transaction.
end_transaction_keeps(tr, ok) == tr

\* Connection._transaction after Connection.commit or Connection.rollback on
\* the transaction tr: None (0) when the Transaction's call returned, unchanged
\* when it raised.
end_transaction(tr, ok) == IF ok THEN 0 ELSE tr

ConnectionStartTransaction(c) ==
    /\ UNCHANGED <<cursorvars, encvars>>
    /\ Len(txns) < MaxTxns
    /\ \E ok \in BOOLEAN :
        /\ start_transaction(c, ok)
        /\ cres' = ConnRet("start_transaction", c, IF ok THEN "none" ELSE "DatabaseError")
    /\ lastq' = NoQuery
    /\ UNCHANGED <<heap, cursors, got>>

\* Connection.cursor
ConnectionCursor(c) ==
    /\ UNCHANGED <<cursorvars, encvars>>
    /\ Len(cursors) < MaxCursors
    /\ IF conns[c].isolation_level # AUTOCOMMIT
       THEN IF conns[c].transaction = 0
            THEN /\ Len(txns) < MaxTxns
                 /\ \E ok \in BOOLEAN :
                     /\ start_transaction(c, ok)
                     /\ cursors' = IF ok
                                   THEN Append(cursors, [connection |-> c,
                                                         request |-> Len(requests) + 1])
                                   ELSE cursors
                     /\ cres' = ConnRet("cursor", c, IF ok THEN "none" ELSE "DatabaseError")
            ELSE /\ cursors' = Append(cursors,
                                   [connection |-> c,
                                    request |-> txns[conns[c].transaction].request])
                 /\ cres' = ConnRet("cursor", c, "none")
                 /\ UNCHANGED <<requests, txns, conns>>
       ELSE /\ requests' = Append(requests, _create_request(c))
            /\ cursors' = Append(cursors, [connection |-> c, request |-> Len(requests) + 1])
            /\ cres' = ConnRet("cursor", c, "none")
            /\ UNCHANGED <<txns, conns>>
    /\ lastq' = NoQuery
    /\ UNCHANGED <<heap, got>>

\* Connection.commit
ConnectionCommit(c) ==
    /\ UNCHANGED <<cursorvars, encvars>>
    /\ LET tr == conns[c].transaction
       IN  IF tr = 0
           THEN /\ cres' = ConnRet("commit", c, "none")
                /\ UNCHANGED <<txns, conns>>
           ELSE \E ok \in BOOLEAN :
                /\ txns' = IF ok THEN [txns EXCEPT ![tr] = Transaction_commit(@)] ELSE txns
                /\ conns' = [conns EXCEPT ![c].transaction = end_transaction(tr, ok)]
                /\ cres' = ConnRet("commit", c, IF ok THEN "none" ELSE "DatabaseError")
    /\ lastq' = NoQuery
    /\ UNCHANGED <<heap, requests, cursors, got>>

\* Connection.rollback
ConnectionRollback(c) ==
    /\ UNCHANGED <<cursorvars, encvars>>
    /\ LET tr == conns[c].transaction
       IN  IF tr = 0
           THEN /\ cres' = ConnRet("rollback", c, "RuntimeError")
                /\ UNCHANGED <<txns, conns>>
           ELSE \E ok \in BOOLEAN :
                /\ txns' = IF ok THEN [txns EXCEPT ![tr] = Transaction_rollback(@)] ELSE txns
                /\ conns' = [conns EXCEPT ![c].transaction = end_transaction(tr, ok)]
                /\ cres' = ConnRet("rollback", c, IF ok THEN "none" ELSE "DatabaseError")
    /\ lastq' = NoQuery
    /\ UNCHANGED <<heap, requests, cursors, got>>

\* What the coordinator answers to the query of a cursor: a result, a result
\* with a session directive, a server error.
QueryResponses ==
    { x \in OkResponses(4, MaxPages) : x.data = <<>> /\ x.columns = None }
        \cup HeaderResponses(4, MaxPages) \cup { Resp(500) }

\* The connection's Transaction that is active, 0 when it has none.
ActiveTransaction(c) ==
    IF conns[c].transaction # 0 /\ txns[conns[c].transaction].state = "ACTIVE"
    THEN conns[c].transaction ELSE 0

\* Cursor.execute(sql) on cursor k: one POST through the cursor's request,
\* then process.
CursorQuery(k) ==
    /\ UNCHANGED <<cursorvars, encvars>>
    /\ \E r \in QueryResponses :
        LET q == cursors[k].request
            c == cursors[k].connection
            d == requests[q].session_properties
            a == PrestoRequest_process(r, requests[q].next_uri, heap[d])
        IN  /\ requests' = [requests EXCEPT ![q].next_uri = a.next_uri]
            /\ heap' = [heap EXCEPT ![d] = a.props]
            /\ got' = [got EXCEPT ![c] = @ \/ r.hdr # "none"]
            /\ lastq' = [connection |-> c, cursor |-> k, request |-> q,
                         transaction_id |-> requests[q].transaction_id,
                         session |-> requests[q].session,
                         active |-> ActiveTransaction(c),
                         own |-> got[c], after |-> got[Other(c)]]
            /\ cres' = ConnRet("execute", c, a.exc)
    /\ UNCHANGED <<conns, txns, cursors>>

\* A query through any of the cursors.
Query == \E k \in 1..MaxCursors : k <= Len(cursors) /\ CursorQuery(k)

\* One connection, of any isolation level, under transaction control.
InitTxn ==
    /\ CursorInit
    /\ NoText
    /\ \E l1 \in IsolationLevel, d \in InitProps : Connect(l1, AUTOCOMMIT, FALSE, d)

NextTxn ==
    \/ ConnectionCursor(1)
    \/ ConnectionStartTransaction(1)
    \/ ConnectionCommit(1)
    \/ ConnectionRollback(1)
    \/ Query

SpecTxn == InitTxn /\ [][NextTxn]_vars

\* Two connections made from one session-properties value (the same dict
\* object or equal dicts), of any isolation levels, and their cursors.
InitConn ==
    /\ CursorInit
    /\ NoText
    /\ \E l1 \in IsolationLevel, l2 \in IsolationLevel, shared \in BOOLEAN, d \in InitProps :
          Connect(l1, l2, shared, d)

AnyCursor == \E c \in Conns : ConnectionCursor(c)

NextConn ==
    \/ AnyCursor
    \/ Query

SpecConn == InitConn /\ [][NextConn]_vars

-----------------------------------------------------------------------------
(* The cursor of a connection made with a max_attempts argument *)

\* The max_attempts values the caller configures.
Attempts == {1, 2, DEFAULT_MAX_ATTEMPTS}

\* connect(..., max_attempts=m): the cursor is a cursor of connection 1.
InitAttempts ==
    /\ CursorInit
    /\ NoText
    /\ \E m \in Attempts, d \in InitProps : ConnectWith(AUTOCOMMIT, AUTOCOMMIT, FALSE, d, m)

SpecAttempts == InitAttempts /\ [][Next]_vars

-----------------------------------------------------------------------------
(* Properties *)

Gens == 1..Len(gens)
Queries == 1..Len(queries)

\* No other generator of the same result has yielded a row: every row that
\* was counted is a row generator g yielded.
SolePass(g) == queries[gens[g].q].rownumber = Len(gens[g].out)

\* C1: a generator that alone consumed its result and ran to its end has
\* yielded every row of every page its query received (the submit response
\* first, then each continuation response), each once, in page order and in
\* within-page order; the rows counted are as many as the pages held.
C1_EveryRowOnce ==
    \A g \in Gens :
        gens[g].phase = "done" /\ SolePass(g) =>
            /\ gens[g].out = track[gens[g].q].received
            /\ queries[gens[g].q].rownumber = Len(track[gens[g].q].received)

\* C1 happens: a sole pass ended after rows of two pages, two of one page.
C1_Witness ==
    \E g \in Gens :
        /\ gens[g].phase = "done" /\ SolePass(g)
        /\ \E i, j \in 1..Len(gens[g].out) :
              /\ i + 1 < j
              /\ gens[g].out[i][2] # gens[g].out[j][2]

\* C2: a generator made from a result after the query was terminal and a
\* generator of that result had run to its end yields no row and leaves the
\* rows-consumed counter as it was.
C2_SecondPassEmpty ==
    \A g \in Gens :
        gens[g].late =>
            /\ gens[g].out = <<>>
            /\ queries[gens[g].q].rownumber = gens[g].rn0

\* C3: a query whose submission was answered is terminal if and only if the
\* continuation URI its next fetch would GET is absent, and no fetch runs for
\* a terminal query.
C3_TerminalIffNoUri ==
    /\ \A o \in Queries :
          queries[o].hasResult => (queries[o].finished <=> next_uri = None)
    /\ pc = "fetch" => ~queries[callq].finished

\* s is a prefix of t.
IsPrefix(s, t) == Len(s) <= Len(t) /\ SubSeq(t, 1, Len(s)) = s

\* C4: when the response to the submission carries no continuation URI the
\* query is terminal from then on, no GET is ever sent for it, and every
\* iteration of its result yields the rows of that response, in order, and
\* then ends.
C4_FirstResponseFinal ==
    \A o \in Queries :
        queries[o].hasResult /\ track[o].firstUri = None =>
            /\ queries[o].finished
            /\ ~track[o].fetched
            /\ \A g \in Gens :
                  gens[g].q = o =>
                      /\ gens[g].phase \in {"first", "done"}
                      /\ IsPrefix(gens[g].out, track[o].received)
                      /\ gens[g].phase = "done" => gens[g].out = track[o].received

\* C4 happens: such a result was iterated to its end and gave rows.
C4_Witness ==
    \E g \in Gens :
        /\ track[gens[g].q].firstUri = None
        /\ ~track[gens[g].q].fetched
        /\ gens[g].phase = "done"
        /\ Len(gens[g].out) = MaxRows

\* A retry loop that ended after at least one exchange.
CallEnded == callRes.kind # "none" /\ callRes.exchanges > 0

\* The exchange succeeds: a 200 that process decodes and returns as a status.
IsSuccess(c) == c.code = 200 /\ c.error = "none" /\ c.hdr = "none"

\* C5: when fewer transient failures (503, connection failure) than the
\* maximum number of attempts precede the first other outcome, no transient
\* error reaches the caller: the call ends with the exchange after them, and
\* when that exchange succeeds the call returns its result without an error.
C5_TransientAbsorbed ==
    CallEnded /\ callRes.planned < MAX_TRIES =>
        /\ callRes.exchanges = callRes.planned + 1
        /\ callRes.exc \notin {"Http503Error", "ConnectionError"}
        /\ IsSuccess(callRes.last) =>
              /\ callRes.exc = "none"
              /\ callRes.kind \in {"execute", "pexecute"} =>
                    queries[callRes.q].hasResult

\* C5 happens: a continuation succeeded on the last attempt allowed.
C5_Witness ==
    /\ callRes.kind = "fetch"
    /\ callRes.planned = MAX_TRIES - 1
    /\ callRes.exchanges = MAX_TRIES
    /\ IsSuccess(callRes.last)
    /\ callRes.exc = "none"

\* The exception a transient outcome raises.
TransientError(c) == IF c.code = 503 THEN "Http503Error" ELSE "ConnectionError"

\* C6: a call never makes more than the maximum number of exchanges, and when
\* every attempt fails with a transient condition it ends after exactly that
\* many, raising the transient error of the last attempt.
C6_BudgetExhausted ==
    /\ exchanges < MAX_TRIES
    /\ callRes.exchanges <= MAX_TRIES
    /\ CallEnded /\ callRes.planned >= MAX_TRIES =>
          /\ callRes.exchanges = MAX_TRIES
          /\ callRes.last.code \in {0, 503}
          /\ callRes.exc = TransientError(callRes.last)

\* C6 happens: a submission gave up on a 503 after connection failures.
C6_Witness ==
    /\ callRes.kind = "execute"
    /\ callRes.exchanges = MAX_TRIES
    /\ callRes.exc = "Http503Error"
    /\ ret = Ret("execute", "Http503Error")

\* The response is a non-transient failure: a status outside 2xx other than
\* 503, or an error envelope.
NonTransient(c) ==
    \/ c.code # 0 /\ c.code # 503 /\ (c.code < 200 \/ c.code > 299)
    \/ c.code = 200 /\ c.error # "none"

\* C7: a non-transient failure is never retried: it is the last exchange of
\* its call (the only one when it is the first outcome) and its error is
\* raised; an exchange is followed by another only when it failed transiently.
C7_FatalNotRetried ==
    /\ pc # "idle" => exchanges <= planned
    /\ CallEnded /\ NonTransient(callRes.last) =>
          /\ callRes.exchanges = callRes.planned + 1
          /\ callRes.planned = 0 => callRes.exchanges = 1
          /\ callRes.exc = IF callRes.last.code # 200 THEN "HttpError"
                           ELSE IF callRes.last.error = "EXTERNAL" THEN "PrestoExternalError"
                           ELSE IF callRes.last.error = "USER_ERROR" THEN "PrestoUserError"
                           ELSE "PrestoQueryError"

\* C7 happens: a continuation answered 500 at once and raised HttpError.
C7_Witness ==
    /\ callRes.kind = "fetch"
    /\ callRes.last.code = 500
    /\ callRes.exchanges = 1
    /\ ret = Ret("next", "HttpError")

\* C8: the request that follows a response with a session-property-set header
\* carries that name=value in its session header, and the request that
\* follows one with a session-property-clear header does not carry that name.
C8_DirectiveInNextRequest ==
    /\ lastReq.after = "set" => SetPair \in lastReq.session
    /\ lastReq.after = "clear" => \A pr \in lastReq.session : pr[1] # ClearName

C10_EveryNonSequenceRejected ==
    params.kind \notin {"None", "list", "tuple"} =>
        /\ pc = "idle"
        /\ ret = Ret("execute", "AssertionError")
        /\ sent = <<>>

\* C10 as amended: a params value that is not a list or a tuple and is not
\* empty (not falsy) makes execute fail with an assertion error before
\* anything is sent; an empty (falsy) one of any type is taken as no
\* parameters: execute does not reject it and sends the raw statement alone.
C10_NonEmptyNonSequenceRejected ==
    /\ Truthy(params) /\ ~IsSequence(params) =>
          /\ pc = "idle"
          /\ ret = Ret("execute", "AssertionError")
          /\ sent = <<>>
          /\ queries = <<>>
    /\ ~Truthy(params) /\ params.kind # "None" =>
          /\ ret.exc # "AssertionError"
          /\ cur_query # 0
          /\ pc = "execute" \/ sent = << <<"RAW", <<>>>> >>

\* C10 happens: a mapping with an entry was rejected.
C10_Witness ==
    /\ params.kind = "dict"
    /\ params.size > 0
    /\ ret = Ret("execute", "AssertionError")
    /\ sent = <<>>


\* The statements of the running parameterized execute.
PREPARE == <<"PREPARE", <<stmt>>>>
EXECUTE == <<"EXECUTE", <<stmt>>>>
DEALLOCATE == <<"DEALLOCATE", <<stmt>>>>

\* C11: an execute with parameters sends PREPARE, then EXECUTE, then
\* DEALLOCATE PREPARE, in this order and with one statement name; when it ends
\* after PREPARE succeeded it has sent exactly one DEALLOCATE PREPARE, last,
\* whether EXECUTE succeeded or failed (or could not be built), and when
\* PREPARE failed it has sent nothing else.
C11_PrepareExecuteDeallocate ==
    Truthy(params) /\ IsSequence(params) =>
        /\ sent \in { <<>>, <<PREPARE>>, <<PREPARE, EXECUTE>>,
                      <<PREPARE, EXECUTE, DEALLOCATE>>, <<PREPARE, DEALLOCATE>> }
        /\ pc = "pexecute" => sent \in { <<PREPARE>>, <<PREPARE, EXECUTE>> }
        /\ pc = "idle" =>
              /\ ret.op = "execute"
              /\ callRes.kind \in {"prepare", "dealloc"}
              /\ callRes.kind = "prepare" =>
                    callRes.exc # "none" /\ sent = <<PREPARE>>
              /\ callRes.kind = "dealloc" =>
                    sent = IF params.enc THEN <<PREPARE, EXECUTE, DEALLOCATE>>
                           ELSE <<PREPARE, DEALLOCATE>>

\* C11 happens: EXECUTE failed and the execute ended after DEALLOCATE.
C11_Witness ==
    /\ pc = "idle"
    /\ ret = Ret("execute", "PrestoUserError")
    /\ callRes.kind = "dealloc"
    /\ callRes.exc = "none"
    /\ sent = <<PREPARE, EXECUTE, DEALLOCATE>>

\* C12: when EXECUTE has failed, the error the execute raises is the EXECUTE
\* error, whatever happens to the DEALLOCATE that follows.
C12_DeallocateNeverMasks ==
    [][(pc = "dealloc" /\ pc' = "idle" /\ params.enc /\ pending # "none")
          => ret'.exc = pending]_vars

\* C17: a response is classified by its status alone: 2xx is a success whose
\* body is decoded, 503 raises the service-unavailable error, every other
\* status raises the generic transport error.
C17_StatusClasses ==
    CallEnded /\ callRes.last.code # 0 =>
        IF callRes.last.code >= 200 /\ callRes.last.code <= 299
        THEN ~IsInstance(callRes.exc, "HttpError")
        ELSE IF callRes.last.code = 503
        THEN callRes.exc = "Http503Error"
        ELSE callRes.exc = "HttpError"

\* The exception class of each kind of error envelope.
EnvelopeKind(errorType) ==
    IF errorType = "EXTERNAL" THEN "PrestoExternalError"
    ELSE IF errorType = "USER_ERROR" THEN "PrestoUserError"
    ELSE "PrestoInternalError"

\* C18: a 200 whose body holds an error envelope returns no status: the call
\* raises the external, the user-error or, for every other errorType, the
\* internal kind; a handler for one kind catches no error of another kind; the
\* session properties and the continuation URI stay as they were.
C18_EnvelopeKinds ==
    [][(pc # "idle" /\ callRes' # callRes /\ callRes'.kind # "none"
            /\ callRes'.last.code = 200 /\ callRes'.last.error # "none")
          => /\ \A t \in {"EXTERNAL", "USER_ERROR", "INTERNAL_ERROR"} :
                   IsInstance(callRes'.exc, EnvelopeKind(t)) <=> t = callRes'.last.error
             /\ next_uri' = next_uri
             /\ session_properties' = session_properties]_vars

\* C19: every GET a query's fetch sends requests the continuation URI of that
\* query's own last response, and every row a query yields is a row of its
\* own pages, whatever other queries ran on the same request in between.
C19_OwnContinuation ==
    /\ pc = "fetch" =>
          next_uri # None /\ next_uri[1] = queries[callq].query_id
    /\ \A g \in Gens : \A i \in 1..Len(gens[g].out) :
          gens[g].out[i][1] = queries[gens[g].q].query_id

\* C16: once the cursor's iterator has signalled the end of the rows, every
\* fetchone returns None and every fetchmany returns the empty list, without an
\* error and without a request, and the iterator stays at its end; the
\* fetchone that meets the end returns None.
C16_ExhaustedStaysEmpty ==
    [][/\ (pc = "idle" /\ cur_iterator # 0 /\ gens[cur_iterator].phase = "done"
             /\ ret'.op \in {"fetchone", "fetchmany"})
          => /\ ret'.exc = "none"
             /\ ret'.val = (IF ret'.op = "fetchone" THEN None ELSE <<>>)
             /\ pc' = "idle"
             /\ sent' = <<>>
             /\ lastReq' = lastReq
             /\ cur_iterator' = cur_iterator
             /\ gens'[cur_iterator].phase = "done"
       /\ (cur_iterator # 0 /\ cur_iterator' = cur_iterator
             /\ gens[cur_iterator].phase \in {"first", "loop"}
             /\ gens'[cur_iterator].phase = "done"
             /\ ret'.op = "fetchone")
          => ret' = RetVal("fetchone", None)]_vars

\* C16 happens: the cursor's iterator has yielded rows of a fetched page and
\* is at its end, and a fetchmany has returned the empty list.
C16_Witness ==
    /\ pc = "idle"
    /\ cur_iterator # 0
    /\ gens[cur_iterator].phase = "done"
    /\ Len(gens[cur_iterator].out) > 0
    /\ track[gens[cur_iterator].q].fetched
    /\ ret.op = "fetchmany"
    /\ ret.exc = "none"
    /\ ret.val = <<>>


\* The Transaction objects made by connection c.
TxnsOf(c) == { t \in 1..Len(txns) : requests[txns[t].request].connection = c }

C14_AtMostOneActive ==
    \A c \in Conns : Cardinality({ t \in TxnsOf(c) : txns[t].state = "ACTIVE" }) <= 1

\* C15: a query sent by any cursor of a connection while the connection has
\* an active Transaction goes through the request of that Transaction and
\* carries its id, not NONE.
C15_QueriesCarryTransaction ==
    lastq.connection # 0 /\ lastq.active # 0 =>
        /\ lastq.request = txns[lastq.active].request
        /\ lastq.transaction_id = txns[lastq.active].id
        /\ lastq.transaction_id # NO_TRANSACTION

\* C20: a request of a connection that has received no session directive
\* itself carries the session properties the connection was made with,
\* whatever directives the other connection has received.
C20_SessionPropertiesNotShared ==
    lastq.connection # 0 /\ ~lastq.own =>
        \E d \in InitProps : lastq.session = headers(d)

\* C20 happens: the two connections were made with the same dict object, one
\* has received a directive, and afterwards the other, which has received
\* none, has sent a query.
C20_Witness ==
    /\ lastq.connection # 0
    /\ ~lastq.own
    /\ lastq.after
    /\ conns[1].session_properties = conns[2].session_properties


\* C21: one submission or one continuation never makes more HTTP exchanges
\* than the max_attempts of the connection; with max_attempts 1 a call that
\* meets a transient failure raises it after one exchange.
C21_WithinMaxAttempts ==
    /\ pc # "idle" => exchanges < conns[1].max_attempts
    /\ callRes.exchanges <= conns[1].max_attempts
    /\ (conns[1].max_attempts = 1 /\ CallEnded /\ callRes.planned > 0)
          => callRes.exchanges = 1 /\ TransientError(callRes)


\* C22: a fetchmany that returns gives the rows the cursor's iterator has
\* just consumed, which continue the rows returned before in the order of the
\* result's pages, none twice and none skipped; it returns fewer rows than
\* its size only when the result is exhausted: the query is finished and
\* every row of its pages was consumed.
C22_FetchmanyNextRows ==
    (pc = "idle" /\ cur_iterator # 0 /\ ret.op = "fetchmany" /\ ret.exc = "none") =>
        LET g == gens[cur_iterator]
            o == g.q
            n == Len(ret.val)
        IN  /\ n <= Len(g.out)
            /\ ret.val = SubSeq(g.out, Len(g.out) - n + 1, Len(g.out))
            /\ IsPrefix(g.out, track[o].received)
            /\ ret.short => /\ g.phase = "done"
                            /\ queries[o].finished
                            /\ g.out = track[o].received


\* How SQL reads a string literal that starts at s[i - 1]: from position i
\* on, two quotes in a row stand for one quote of the value and a single
\* quote ends the literal.  It gives where the literal ends (0 if it never
\* does) and the value read.
RECURSIVE ReadLiteral(_, _, _)
ReadLiteral(s, i, acc) ==
    IF i > Len(s) THEN [end |-> 0, value |-> acc]
    ELSE IF s[i] # QUOTE THEN ReadLiteral(s, i + 1, Append(acc, s[i]))
    ELSE IF i < Len(s) /\ s[i + 1] = QUOTE THEN ReadLiteral(s, i + 2, Append(acc, QUOTE))
    ELSE [end |-> i, value |-> acc]

\* The quotes of s.
Quotes(s) == Cardinality({i \in 1..Len(s) : s[i] = QUOTE})

\* C23: the literal of a text parameter is the text between two single
\* quotes with every quote of the text doubled and its other characters
\* unchanged: it has as many characters as the text plus its quotes plus two,
\* the number of quotes inside the outer pair is even, and read as SQL the
\* literal ends at its last character, not earlier, with the text as value.
C23_TextLiteralCloses ==
    literal # <<>> =>
        LET n == Len(literal)
            inner == SubSeq(literal, 2, n - 1)
        IN  /\ n = Len(text) + Quotes(text) + 2
            /\ literal[1] = QUOTE
            /\ literal[n] = QUOTE
            /\ Quotes(inner) = 2 * Quotes(text)
            /\ Quotes(inner) % 2 = 0
            /\ ReadLiteral(literal, 2, <<>>) = [end |-> n, value |-> text]

\* The text of the claim's example, it's (here a's), has been formatted.
C23_Witness ==
    /\ text = <<"a", QUOTE, "a">>
    /\ literal = <<QUOTE, "a", QUOTE, QUOTE, "a", QUOTE>>


\* C24: while fetch(), called by the caller on a query that is finished, is
\* running, no request is sent, and the step it takes ends it with an error.
C24_FetchOnTerminalFails ==
    [][(pc = "qfetch" /\ queries[callq].finished)
          => /\ pc' = "idle"
             /\ ret'.exc # "none"
             /\ sent' = sent
             /\ lastReq' = lastReq]_vars


\* A continuation fetch has just failed with an error the server reported in
\* its response.
FetchFailedByServer ==
    /\ pc = "idle"
    /\ callRes.kind = "fetch"
    /\ callRes.exc # "none"
    /\ callRes.last.code = 200
    /\ callRes.last.error # "none"

\* C25: after a continuation fetch failed with a server-reported error the
\* query is finished, and the next operation on its result neither sends a
\* continuation request nor returns None or a list as at a clean end of data.
C25_FailedFetchIsTerminal ==
    [][FetchFailedByServer
          => /\ queries[callRes.q].finished
             /\ pc' # "fetch"
             /\ ~(ret'.op \in {"fetchone", "fetchmany"} /\ ret'.exc = "none")]_vars


\* C26: after a parameterized execute whose EXECUTE statement was answered
\* with a page and a nextUri, the DEALLOCATE statement having run, the
\* request still holds that nextUri for EXECUTE's next page and the query is
\* finished only if its own last response had no nextUri; the rows the
\* cursor's iterator yields are the rows of EXECUTE's pages, in order.
C26_DeallocateLeavesExecute ==
    (pc = "idle" /\ stmt # 0 /\ cur_query # 0 /\ cur_iterator # 0
        /\ track[cur_query].firstUri # None) =>
        LET q == queries[cur_query]
            t == track[cur_query]
            out == gens[cur_iterator].out
        IN  /\ (~t.fetched /\ ret.op = "execute") =>
                   /\ next_uri = t.firstUri
                   /\ ~q.finished
            /\ IsPrefix(out, t.received)
            /\ \A i \in 1..Len(t.received) : t.received[i][1] = q.query_id


\* The request the next attempt of the running call sends.
RequestOf == IF pc = "fetch" THEN <<"GET", next_uri>> ELSE Statement(pc)

\* The step is an attempt that is retried.
Retried == pc # "idle" /\ pc' = pc /\ tries' = tries + 1

\* The step is an attempt that failed: it is retried, or it ends the call
\* with an exception.
AttemptFailed == Retried \/ (pc # "idle" /\ tries' = 0 /\ callRes'.exc # "none")

\* C27: an attempt that is retried leaves the call where it was, so that
\* the next attempt sends the same statement or GETs the same continuation
\* URI with the same session header; an attempt that failed leaves every
\* query object (id, state, finished, columns) and the continuation URI of
\* the request unchanged.
C27_RetryRepeatsRequest ==
    [][/\ Retried => /\ RequestOf' = RequestOf
                     /\ session_headers' = session_headers
       /\ AttemptFailed => /\ next_uri' = next_uri
                           /\ \A o \in 1..Len(queries) : queries'[o] = queries[o]]_vars

\* A continuation GET is being retried.
C27_Witness ==
    /\ pc = "fetch"
    /\ tries > 0
    /\ next_uri # None
    /\ queries[callq].query_id # 0


\* Generator g is the only generator made of its result.
SoleGen(g) == \A h \in Gens : gens[h].q = gens[g].q => h = g

\* The page generator g is in: the rows of the submit response, then the rows
\* its last fetch returned.
CurrentPage(g) == IF gens[g].phase = "first" THEN queries[gens[g].q].rows ELSE gens[g].rows

\* C28: for the only generator of a result that has not ended, the rows its
\* query has received and it has not yet yielded are the rest of its current
\* page, so that no later page is held; and while its request for the next
\* page is under way every row received so far has been yielded.
C28_OnePageAtATime ==
    \A g \in Gens :
        (SoleGen(g) /\ gens[g].phase \in {"first", "loop"}) =>
            /\ gens[g].idx <= Len(CurrentPage(g))
            /\ track[gens[g].q].received =
                  gens[g].out \o SubSeq(CurrentPage(g), gens[g].idx + 1, Len(CurrentPage(g)))
            /\ (pc = "fetch" /\ callgen = g) => gens[g].out = track[gens[g].q].received

\* The request for the next page is under way after the two rows of the
\* first page were yielded.
C28_Witness ==
    \E g \in Gens :
        /\ SoleGen(g)
        /\ pc = "fetch"
        /\ callgen = g
        /\ Len(gens[g].out) = 2
        /\ gens[g].out = queries[gens[g].q].rows


\* C29: a continuation fetch that succeeds records the columns of its page
\* if the page carried columns and leaves the recorded columns as they were
\* if it carried none; columns once recorded are never reset to absent.
C29_ColumnsKept ==
    [][(pc = "fetch" /\ tries' = 0 /\ callRes'.exc = "none")
          => LET o == callq
                 c == callRes'.last.columns
             IN  /\ c # None => queries'[o].columns = c
                 /\ c = None => queries'[o].columns = queries[o].columns
                 /\ queries[o].columns # None => queries'[o].columns # None]_vars

\* A page without columns was fetched for a query that had recorded the
\* columns of an earlier page.
C29_Witness ==
    /\ callRes.kind = "fetch"
    /\ callRes.exc = "none"
    /\ callRes.last.columns = None
    /\ queries[callRes.q].columns # None


\* C30: when the response that ended the last call for the cursor's query,
\* its submission or a continuation fetch, carried columns, the cursor's
\* description is not None; so it is for a query that was finished by the
\* response to its submission.
C30_DescriptionAfterColumns ==
    (pc = "idle" /\ cur_query # 0 /\ callRes.q = cur_query
        /\ callRes.kind \in {"execute", "fetch"} /\ callRes.exc = "none"
        /\ callRes.last.columns # None)
        => description(queries[cur_query]) # None


\* C31: when a loop over the result of the cursor's query (fetchall) has run
\* to its end after fetchone and fetchmany returned rows of that result, the
\* rows those returned followed by the rows of the loop are the rows of the
\* pages the query received, each once and in order.
C31_MixReturnsEachRowOnce ==
    \A h \in Gens :
        (cur_iterator # 0 /\ h # cur_iterator /\ gens[h].q = gens[cur_iterator].q
            /\ gens[h].phase = "done")
            => gens[cur_iterator].out \o gens[h].out = track[gens[h].q].received


C33_TransportFailureUnchanged ==
    (pc = "idle" /\ callRes.kind = "fetch"
        /\ callRes.exc \in {"ConnectionError", "Http503Error", "HttpError"}
        /\ ret.op \in {"fetchone", "fetchmany", "next"})
        => ret.exc = callRes.exc


\* The cursor's iterator has signalled the end of the rows.
IterationAtEnd == cur_iterator # 0 /\ gens[cur_iterator].phase = "done"

\* C34: once execute has given the cursor an iterator, fetching on leads to
\* the end of the iteration: the iterator has signalled the end of the rows
\* and the query is finished; and the iterator signals the end only when the
\* query is finished, so a page without rows that has a nextUri does not end
\* it.
C34_IterationEnds ==
    /\ [](IterationAtEnd => queries[gens[cur_iterator].q].finished)
    /\ (cur_iterator # 0) ~> (IterationAtEnd /\ queries[gens[cur_iterator].q].finished)

====
